---- MODULE Spec2Model ----
(***************************************************************************)
(* Call-processing pipeline of the 29ROZ call analyzer (src/main.py):      *)
(* the Processed-Set tracker kept in the PROCESSED_CALLS environment       *)
(* variable, the recording resolver (download_recording), the audio        *)
(* normalizer and transcription (transcribe_with_yandex), the analysis     *)
(* (analyze_with_gpt), the delivery (send_telegram_report) and the         *)
(* orchestrator loop (main).                                               *)
(***************************************************************************)
EXTENDS Integers, Sequences, FiniteSets, TLC

VARIABLES
    env,              \* os.environ["PROCESSED_CALLS"], as a token sequence
    pc,               \* position of main(): idle, load, loop, done, aborted
    runs,             \* number of runs of main() started so far
    window,           \* the provider's call list for the lookback window
    new_calls,        \* main's local list, main.py:601
    i,                \* number of entries of new_calls already handled
    cur,              \* history: what the loop body did for entry i
    markedIds,        \* history: ids passed to save_processed_call in the run
    legitIds,         \* history: ids reported, or found without recording, in the run
    failedIds,        \* history: ids whose delivery failed in the run
    deliveredIds,     \* history: ids whose report was delivered in the run
    prevDelivered,    \* history: deliveredIds of the run before
    token,            \* main's local token, main.py:584
    processed_calls,  \* main's local set, main.py:591
    calls,            \* main's local list, main.py:595
    handled,          \* history: the call_uuids the loop body ran for, in order
    resolver,         \* one download_recording call: its inputs and result
    transcriber,      \* one transcribe_with_yandex call: its inputs and result
    tracker,          \* the last load or save of the Processed-Set
    formatter,        \* one classification of an analysis text
    numbers,          \* one choice of the report's counterpart numbers
    web               \* the /process requests in progress, and their marks

\* The state of a run of main(), the persisted string apart.
mainVars == <<pc, runs, window, new_calls, i, cur, markedIds, legitIds, failedIds,
              deliveredIds, prevDelivered, token, processed_calls, calls, handled>>

\* The calls of single functions.
units == <<resolver, transcriber, tracker, formatter, numbers, web>>

vars == <<env, mainVars, units>>

---------------------------------------------------------------------------
(* Bounds of the model *)

MaxCalls == 2
MaxRuns == 2
MaxTrackerOps == 2
MaxWords == 3
MaxDomains == 2
MaxRequests == 2
MaxMarks == 2

(* Constants of the program *)

MaxProcessed == 100
MaxAudioBytes == 1048576
MaxDuration == 30

---------------------------------------------------------------------------
(* Identifiers.  A call_uuid is an opaque string: those of the call lists  *)
(* are comma-free, CommaId has a comma in it.  NoId is a missing or empty  *)
(* call_uuid.  Filler(n) are the identifiers of calls that have left the   *)
(* lookback window: they are members of the Processed-Set and never come   *)
(* back in a call list.                                                    *)

CallIdSeq == <<"A", "B">>
NoId == ""
CommaId == "P,Q"
Filler(n) == "f" \o ToString(n)
Fillers(n) == {Filler(k) : k \in 1..n}

Range(s) == {s[k] : k \in DOMAIN s}
CallIds == Range(CallIdSeq)

---------------------------------------------------------------------------
(* Processed-Set tracker.  The persisted string is a sequence of tokens:   *)
(* a token is the separator "," or a comma-free piece of text.             *)

Sep == ","

\* os.environ without the key PROCESSED_CALLS.
Absent == <<"<unset>">>

\* The text of an identifier, as tokens.
Text(id) ==
    IF id = CommaId THEN <<"P", Sep, "Q">>
    ELSE IF id = "" THEN <<>>
    ELSE <<id>>

\* The order in which a Python set of these identifiers is iterated.  The
\* language leaves it unspecified; nothing reads the order of the persisted
\* string (load_processed_calls builds a set from it), so one order stands
\* for all.
IterationOrder ==
    [k \in 1..(MaxProcessed + 1) |-> Filler(k)] \o CallIdSeq \o <<CommaId, "P", "Q", NoId>>
FillerIds == Fillers(MaxProcessed + 1)

SetToSeq(S) == SelectSeq(IterationOrder, LAMBDA x : x \in S)

\* The concatenation of parts[lo], ..., parts[hi].
RECURSIVE Concat(_, _, _)
Concat(parts, lo, hi) ==
    IF lo > hi THEN <<>>
    ELSE IF lo = hi THEN parts[lo]
    ELSE LET mid == (lo + hi) \div 2
         IN Concat(parts, lo, mid) \o Concat(parts, mid + 1, hi)

\* ",".join(list): the texts of the elements with a separator between
\* neighbours.
Join(list) ==
    Concat([k \in 1..(2 * Len(list) - 1) |->
               IF k % 2 = 1 THEN Text(list[(k + 1) \div 2]) ELSE <<Sep>>],
           1, 2 * Len(list) - 1)

\* set(str.split(",")): the pieces of text between separators, empty
\* pieces included.  A piece starts at the head of the string and after
\* every separator.
RECURSIVE PieceAt(_, _)
PieceAt(str, k) ==
    IF k > Len(str) \/ str[k] = Sep THEN ""
    ELSE str[k] \o PieceAt(str, k + 1)

Pieces(str) ==
    {PieceAt(str, k) : k \in {1} \cup {p + 1 : p \in {q \in DOMAIN str : str[q] = Sep}}}

\* A load that splits the empty string as well.
load_processed_calls_SplitsEmpty(e) ==
    IF e = Absent THEN {} ELSE Pieces(e)

load_processed_calls(e) ==
    LET processed_calls_str == IF e = Absent THEN <<>> ELSE e
    IN IF processed_calls_str # <<>> THEN Pieces(processed_calls_str) ELSE {}

\* list(processed_calls)[-100:] keeps the last 100 elements of the set's
\* iteration order, which Python leaves unspecified: any element may be the
\* one dropped.  Identifiers of calls that left the window are
\* interchangeable (none is looked up again), so the lowest of them stands
\* for dropping any of them.
LowestFiller(S) ==
    LET n == CHOOSE k \in 1..(MaxProcessed + 1) :
                 /\ Filler(k) \in S
                 /\ \A j \in 1..(k - 1) : Filler(j) \notin S
    IN Filler(n)

DropCandidates(S) ==
    (S \ FillerIds) \cup (IF S \cap FillerIds = {} THEN {} ELSE {LowestFiller(S)})

RECURSIVE Truncations(_)
Truncations(S) ==
    IF Cardinality(S) > MaxProcessed
    THEN UNION {Truncations(S \ {x}) : x \in DropCandidates(S)}
    ELSE {S}

\* The values os.environ["PROCESSED_CALLS"] may hold after
\* save_processed_call(call_id) when it held e before.
save_processed_call(e, call_id) ==
    {Join(SetToSeq(kept)) : kept \in Truncations(load_processed_calls(e) \cup {call_id})}

---------------------------------------------------------------------------
(* Audio blobs and the answers of the outside world *)

NoBlob == [len |-> -1, legacy |-> FALSE]          \* Python None
EmptyBlob == [len |-> 0, legacy |-> FALSE]        \* b""
Blobs ==
    {EmptyBlob} \cup
    {[len |-> n, legacy |-> l] :
        n \in {20000, MaxAudioBytes, MaxAudioBytes + 1}, l \in BOOLEAN}

Truthy(blob) == blob.len > 0

\* get_call_cdr: a transport error or unexpected format, a page without the
\* call, or the call's record.
CdrResponses ==
    {[kind |-> k, record_file_size |-> 0, storage_url |-> FALSE, record_uuid |-> FALSE] :
        k \in {"error", "notfound"}} \cup
    {[kind |-> "found", record_file_size |-> n, storage_url |-> s, record_uuid |-> r] :
        n \in {0, 20000}, s \in BOOLEAN, r \in BOOLEAN}

\* requests.get on a recording endpoint: status 0 stands for an exception
\* raised by the transport.
FetchResponses ==
    {[status |-> 200, content |-> b] : b \in Blobs} \cup
    {[status |-> s, content |-> EmptyBlob] : s \in {0, 204, 404, 500}}

---------------------------------------------------------------------------
(* Recording resolver: download_recording with get_call_cdr.  c is the     *)
(* answer of the detail-record fetch, r1, r2 and r3 the answers the three  *)
(* recording endpoints would give.  log lists the requests made, in        *)
(* order; path names the return statement taken.                           *)

\* A resolver that asks the recording-reference endpoint although the
\* storage URL has answered with the bytes.
DownloadRecording_KeepsGoing(c, r1, r2, r3) ==
    IF c.kind # "found" \/ c.record_file_size = 0
    THEN [audio |-> NoBlob, log |-> <<"cdr">>, path |-> "size0"]
    ELSE
        LET try1 == c.storage_url
            got1 == try1 /\ r1.status = 200
            try2 == c.record_uuid
            got2 == try2 /\ r2.status = 200
            log1 == <<"cdr">> \o (IF try1 THEN <<"storage_url">> ELSE <<>>)
            log2 == log1 \o (IF try2 THEN <<"record_uuid">> ELSE <<>>)
            log3 == log2 \o <<"call_uuid">>
        IN IF got1 THEN [audio |-> r1.content, log |-> log2, path |-> "storage_url"]
           ELSE IF got2 THEN [audio |-> r2.content, log |-> log2, path |-> "record_uuid"]
           ELSE IF r3.status = 200
           THEN [audio |-> r3.content, log |-> log3, path |-> "call_uuid"]
           ELSE [audio |-> NoBlob, log |-> log3, path |-> "fetch_failed"]

DownloadRecording(c, r1, r2, r3) ==
    IF c.kind # "found"
    THEN [audio |-> NoBlob, log |-> <<"cdr">>,
          path |-> IF c.kind = "error" THEN "cdr_error" ELSE "cdr_notfound"]
    ELSE IF c.record_file_size = 0
    THEN [audio |-> NoBlob, log |-> <<"cdr">>, path |-> "size0"]
    ELSE
        LET try1 == c.storage_url
            got1 == try1 /\ r1.status = 200
            try2 == ~got1 /\ c.record_uuid
            got2 == try2 /\ r2.status = 200
            log1 == <<"cdr">> \o (IF try1 THEN <<"storage_url">> ELSE <<>>)
            log2 == log1 \o (IF try2 THEN <<"record_uuid">> ELSE <<>>)
            log3 == log2 \o <<"call_uuid">>
        IN IF got1 THEN [audio |-> r1.content, log |-> log1, path |-> "storage_url"]
           ELSE IF got2 THEN [audio |-> r2.content, log |-> log2, path |-> "record_uuid"]
           ELSE IF r3.status = 404
           THEN [audio |-> NoBlob, log |-> log3, path |-> "legacy404"]
           ELSE IF r3.status = 200
           THEN [audio |-> r3.content, log |-> log3, path |-> "call_uuid"]
           ELSE [audio |-> NoBlob, log |-> log3, path |-> "fetch_failed"]

DownloadResults ==
    {DownloadRecording(c, r1, r2, r3) :
        c \in CdrResponses, r1 \in FetchResponses,
        r2 \in FetchResponses, r3 \in FetchResponses}

---------------------------------------------------------------------------
(* Audio normalizer and transcription: transcribe_with_yandex.  Durations  *)
(* are in tenths of a second.                                              *)

NoText == "<None>"
Placeholder == "<too long>"
\* A truth test that only asks for a value: the empty text passes.
TruthyText_AcceptsEmpty(t) == t # NoText

TruthyText(t) == t \notin {NoText, ""}

ProbeResults ==
    {[kind |-> "ok", tenths |-> d] : d \in {100, MaxDuration * 10, MaxDuration * 10 + 1}} \cup
    {[kind |-> k, tenths |-> 0] : k \in {"unparseable", "failed", "raised"}}
FfmpegResults == {"ok", "failed", "raised"}
SttResponses == {"text", "empty", "nokey", "http_error", "raised"}

\* A normalizer that gives up at the limit itself: 30.0 seconds is too long.
ConvertLegacy_SkipsAtLimit(p, f) ==
    IF p.kind = "raised"
    THEN [go |-> "none", log |-> <<"ffprobe">>, tmp |-> {"mp3"}]
    ELSE IF p.kind = "ok" /\ p.tenths >= MaxDuration * 10
    THEN [go |-> "placeholder", log |-> <<"ffprobe">>, tmp |-> {}]
    ELSE IF f = "ok"
    THEN [go |-> "on", log |-> <<"ffprobe", "ffmpeg">>, tmp |-> {}]
    ELSE [go |-> "none", log |-> <<"ffprobe", "ffmpeg">>, tmp |-> {"mp3", "ogg"}]

\* main.py:325-371: go = "on" when the converted audio goes on to the
\* provider, tmp the temporary files left behind.
ConvertLegacy(p, f) ==
    IF p.kind = "raised"
    THEN [go |-> "none", log |-> <<"ffprobe">>, tmp |-> {"mp3"}]
    ELSE IF p.kind = "ok" /\ p.tenths > MaxDuration * 10
    THEN [go |-> "placeholder", log |-> <<"ffprobe">>, tmp |-> {}]
    ELSE IF f = "ok"
    THEN [go |-> "on", log |-> <<"ffprobe", "ffmpeg">>, tmp |-> {}]
    ELSE [go |-> "none", log |-> <<"ffprobe", "ffmpeg">>, tmp |-> {"mp3", "ogg"}]

\* main.py:386-424
Recognize(s) ==
    IF s = "text" THEN "hello" ELSE IF s = "empty" THEN "" ELSE NoText

\* The return statement Recognize takes: main.py:411 with a text or with the
\* empty text, main.py:415, 421 or 424 otherwise.
RecognizePath(s) ==
    IF s = "text" THEN "recognized" ELSE IF s = "empty" THEN "empty_text" ELSE "stt_failed"

\* A transcription that turns away a blob of exactly the limit.
transcribe_with_yandex_RejectsAtLimit(key_ok, audio_data, p, f, s) ==
    IF ~key_ok THEN [text |-> NoText, log |-> <<>>, tmp |-> {}, path |-> "no_key"]
    ELSE IF ~Truthy(audio_data)
    THEN [text |-> NoText, log |-> <<>>, tmp |-> {}, path |-> "no_audio"]
    ELSE IF audio_data.len >= MaxAudioBytes
    THEN [text |-> NoText, log |-> <<>>, tmp |-> {}, path |-> "too_large"]
    ELSE
        LET conv == IF audio_data.legacy THEN ConvertLegacy(p, f)
                    ELSE [go |-> "on", log |-> <<>>, tmp |-> {}]
        IN IF conv.go = "none"
           THEN [text |-> NoText, log |-> conv.log, tmp |-> conv.tmp,
                 path |-> IF "ffmpeg" \in Range(conv.log) THEN "convert_failed"
                          ELSE "probe_raised"]
           ELSE IF conv.go = "placeholder"
           THEN [text |-> Placeholder, log |-> conv.log, tmp |-> conv.tmp,
                 path |-> "too_long"]
           ELSE [text |-> Recognize(s), log |-> conv.log \o <<"stt">>, tmp |-> conv.tmp,
                 path |-> RecognizePath(s)]

\* path names the return statement taken.
transcribe_with_yandex(key_ok, audio_data, p, f, s) ==
    IF ~key_ok THEN [text |-> NoText, log |-> <<>>, tmp |-> {}, path |-> "no_key"]
    ELSE IF ~Truthy(audio_data)
    THEN [text |-> NoText, log |-> <<>>, tmp |-> {}, path |-> "no_audio"]
    ELSE IF audio_data.len > MaxAudioBytes
    THEN [text |-> NoText, log |-> <<>>, tmp |-> {}, path |-> "too_large"]
    ELSE
        LET conv == IF audio_data.legacy THEN ConvertLegacy(p, f)
                    ELSE [go |-> "on", log |-> <<>>, tmp |-> {}]
        IN IF conv.go = "none"
           THEN [text |-> NoText, log |-> conv.log, tmp |-> conv.tmp,
                 path |-> IF "ffmpeg" \in Range(conv.log) THEN "convert_failed"
                          ELSE "probe_raised"]
           ELSE IF conv.go = "placeholder"
           THEN [text |-> Placeholder, log |-> conv.log, tmp |-> conv.tmp,
                 path |-> "too_long"]
           ELSE [text |-> Recognize(s), log |-> conv.log \o <<"stt">>, tmp |-> conv.tmp,
                 path |-> RecognizePath(s)]

TranscribeResults(audio_data) ==
    {transcribe_with_yandex(k, audio_data, p, f, s) :
        k \in BOOLEAN, p \in ProbeResults, f \in FfmpegResults, s \in SttResponses}

---------------------------------------------------------------------------
(* Analysis: analyze_with_gpt.  g = "client_raised" is the client          *)
(* constructor of main.py:446 raising, which no try block encloses.        *)

GptResults == {"text", "empty", "raised", "client_raised"}

analyze_with_gpt(key_ok, transcript, g) ==
    IF ~key_ok \/ ~TruthyText(transcript)
    THEN [analysis |-> NoText, log |-> <<>>, raised |-> FALSE]
    ELSE IF g = "client_raised"
    THEN [analysis |-> NoText, log |-> <<>>, raised |-> TRUE]
    ELSE [analysis |-> IF g = "text" THEN "analysis" ELSE IF g = "empty" THEN "" ELSE NoText,
          log |-> <<"gpt">>, raised |-> FALSE]

AnalysisResults(transcript) ==
    {analyze_with_gpt(k, transcript, g) : k \in BOOLEAN, g \in GptResults}

---------------------------------------------------------------------------
(* Delivery: send_telegram_report, which catches every exception *)

TelegramResults == {"ok", "raised"}

send_telegram_report(cfg_ok, tg) ==
    IF ~cfg_ok THEN [sent |-> FALSE, log |-> <<>>]
    ELSE [sent |-> (tg = "ok"), log |-> <<"telegram">>]

DeliveryResults ==
    {send_telegram_report(k, tg) : k \in BOOLEAN, tg \in TelegramResults}

---------------------------------------------------------------------------
(* Report formatter: the tag of the report, main.py:646-659.  An analysis  *)
(* text is a sequence of words; a marker is in the text when one of the    *)
(* words is the marker (no marker is part of another one).  The markers    *)
(* are Russian upper-case words in the source, written here in Latin       *)
(* letters: PRODAZHA (sale), ZAKAZ OFORMLEN (order placed), LOGISTIKA,     *)
(* PODDERZHKA (support), NEDOZVON (no answer), OSHIBKA (error), DRUGOE     *)
(* (other).                                                                *)

Markers ==
    {"PRODAZHA", "ZAKAZ OFORMLEN", "LOGISTIKA", "PODDERZHKA",
     "NEDOZVON", "OSHIBKA", "DRUGOE"}
Words == Markers \cup {"word"}
AnalysisTexts == UNION {[1..n -> Words] : n \in 0..MaxWords}

\* marker in analysis
Contains(analysis, marker) == \E k \in DOMAIN analysis : analysis[k] = marker

\* A formatter that looks for the logistics marker before the sale marker.
call_type_emoji_LogisticsFirst(analysis) ==
    IF Contains(analysis, "LOGISTIKA") THEN "logistics"
    ELSE IF Contains(analysis, "PRODAZHA")
    THEN IF Contains(analysis, "ZAKAZ OFORMLEN") THEN "successful_sale" ELSE "failed_sale"
    ELSE IF Contains(analysis, "PODDERZHKA") THEN "support"
    ELSE IF Contains(analysis, "NEDOZVON") \/ Contains(analysis, "OSHIBKA")
    THEN "no_answer_error"
    ELSE IF Contains(analysis, "DRUGOE") THEN "other"
    ELSE "generic"

call_type_emoji(analysis) ==
    IF Contains(analysis, "PRODAZHA")
    THEN IF Contains(analysis, "ZAKAZ OFORMLEN") THEN "successful_sale" ELSE "failed_sale"
    ELSE IF Contains(analysis, "LOGISTIKA") THEN "logistics"
    ELSE IF Contains(analysis, "PODDERZHKA") THEN "support"
    ELSE IF Contains(analysis, "NEDOZVON") \/ Contains(analysis, "OSHIBKA")
    THEN "no_answer_error"
    ELSE IF Contains(analysis, "DRUGOE") THEN "other"
    ELSE "generic"

---------------------------------------------------------------------------
(* Orchestrator: the body of main's loop for one call, main.py:629-723.    *)
(* d is the result of download_recording, t of transcribe_with_yandex, a   *)
(* of analyze_with_gpt and s of send_telegram_report; a stage the code     *)
(* does not reach is not read.  mark says whether save_processed_call is   *)
(* called, raised whether an exception leaves the loop.                    *)

NoRecordingPaths == {"cdr_error", "cdr_notfound", "size0", "legacy404", "fetch_failed"}

\* The results of the stages that a pass did not reach.
NoTranscript == [text |-> NoText, log |-> <<>>, tmp |-> {}, path |-> "none"]
NoAnalysis == [analysis |-> NoText, log |-> <<>>, raised |-> FALSE]
NoDelivery == [sent |-> FALSE, log |-> <<>>]

Passed(d, t, a, s, outcome, mark) ==
    [outcome |-> outcome,
     log |-> d.log \o t.log \o a.log \o s.log,
     mark |-> mark, raised |-> FALSE, tpath |-> t.path]

\* A loop body that marks the call although its delivery failed.
MainBody_MarksFailedDelivery(d, t, a, s) ==
    IF ~Truthy(d.audio) THEN Passed(d, t, a, s, "size0", TRUE)
    ELSE IF ~TruthyText(t.text) THEN Passed(d, t, a, s, "transcription_failed", FALSE)
    ELSE IF ~TruthyText(a.analysis) THEN Passed(d, t, a, s, "analysis_failed", FALSE)
    ELSE Passed(d, t, a, s, IF s.sent THEN "reported" ELSE "delivery_failed", TRUE)

\* A loop body that leaves a call without recording unmarked.
MainBody_LeavesNoRecordingUnmarked(d, t, a, s) ==
    IF ~Truthy(d.audio) THEN Passed(d, t, a, s, d.path, FALSE)
    ELSE IF ~TruthyText(t.text) THEN Passed(d, t, a, s, "transcription_failed", FALSE)
    ELSE IF ~TruthyText(a.analysis) THEN Passed(d, t, a, s, "analysis_failed", FALSE)
    ELSE Passed(d, t, a, s, IF s.sent THEN "reported" ELSE "delivery_failed", s.sent)

\* A loop body that marks the call although its analysis failed.
MainBody_MarksFailedAnalysis(d, t, a, s) ==
    IF ~Truthy(d.audio) THEN Passed(d, t, a, s, "size0", TRUE)
    ELSE IF ~TruthyText(t.text) THEN Passed(d, t, a, s, "transcription_failed", FALSE)
    ELSE IF ~TruthyText(a.analysis) THEN Passed(d, t, a, s, "analysis_failed", TRUE)
    ELSE Passed(d, t, a, s, IF s.sent THEN "reported" ELSE "delivery_failed", s.sent)

\* A loop body that takes the 404 of the legacy endpoint for a failure to
\* retry: the call is left unmarked.
MainBody_RetriesAfter404(d, t, a, s) ==
    IF ~Truthy(d.audio)
    THEN Passed(d, NoTranscript, NoAnalysis, NoDelivery,
                IF d.path \in NoRecordingPaths THEN d.path ELSE "empty_body",
                d.path # "legacy404")
    ELSE IF ~TruthyText(t.text) THEN Passed(d, t, a, s, "transcription_failed", FALSE)
    ELSE IF ~TruthyText(a.analysis) THEN Passed(d, t, a, s, "analysis_failed", FALSE)
    ELSE Passed(d, t, a, s, IF s.sent THEN "reported" ELSE "delivery_failed", s.sent)

\* A loop body that gives up a call whose transcript is the placeholder.
MainBody_AbandonsPlaceholder(d, t, a, s) ==
    IF ~Truthy(d.audio)
    THEN Passed(d, NoTranscript, NoAnalysis, NoDelivery,
                IF d.path \in NoRecordingPaths THEN d.path ELSE "empty_body", TRUE)
    ELSE IF ~TruthyText(t.text) \/ t.text = Placeholder
    THEN Passed(d, t, NoAnalysis, NoDelivery, "transcription_failed", FALSE)
    ELSE IF ~TruthyText(a.analysis) THEN Passed(d, t, a, NoDelivery, "analysis_failed", FALSE)
    ELSE Passed(d, t, a, s, IF s.sent THEN "reported" ELSE "delivery_failed", s.sent)

\* A loop body that marks a call whose transcription failed, as it does for
\* a call without recording.
MainBody_MarksFailedTranscription(d, t, a, s) ==
    IF ~Truthy(d.audio)
    THEN Passed(d, NoTranscript, NoAnalysis, NoDelivery,
                IF d.path \in NoRecordingPaths THEN d.path ELSE "empty_body", TRUE)
    ELSE IF ~TruthyText(t.text)
    THEN Passed(d, t, NoAnalysis, NoDelivery, "transcription_failed", TRUE)
    ELSE IF ~TruthyText(a.analysis) THEN Passed(d, t, a, NoDelivery, "analysis_failed", FALSE)
    ELSE Passed(d, t, a, s, IF s.sent THEN "reported" ELSE "delivery_failed", s.sent)

MainBody(d, t, a, s) ==
    IF ~Truthy(d.audio)
    THEN [outcome |-> IF d.path \in NoRecordingPaths THEN d.path ELSE "empty_body",
          log |-> d.log, mark |-> TRUE, raised |-> FALSE, tpath |-> "none"]
    ELSE IF ~TruthyText(t.text)
    THEN [outcome |-> "transcription_failed", log |-> d.log \o t.log,
          mark |-> FALSE, raised |-> FALSE, tpath |-> t.path]
    ELSE IF a.raised
    THEN [outcome |-> "raised", log |-> d.log \o t.log \o a.log,
          mark |-> FALSE, raised |-> TRUE, tpath |-> t.path]
    ELSE IF ~TruthyText(a.analysis)
    THEN [outcome |-> "analysis_failed", log |-> d.log \o t.log \o a.log,
          mark |-> FALSE, raised |-> FALSE, tpath |-> t.path]
    ELSE IF s.sent
    THEN [outcome |-> "reported", log |-> d.log \o t.log \o a.log \o s.log,
          mark |-> TRUE, raised |-> FALSE, tpath |-> t.path]
    ELSE [outcome |-> "delivery_failed", log |-> d.log \o t.log \o a.log \o s.log,
          mark |-> FALSE, raised |-> FALSE, tpath |-> t.path]

\* Every way one pass of the loop body can go, over all answers of the
\* outside world.
LoopBodyResults ==
    UNION {
        IF ~Truthy(d.audio) THEN {MainBody(d, NoTranscript, NoAnalysis, NoDelivery)}
        ELSE UNION {
            IF ~TruthyText(t.text) THEN {MainBody(d, t, NoAnalysis, NoDelivery)}
            ELSE UNION {
                IF a.raised \/ ~TruthyText(a.analysis) THEN {MainBody(d, t, a, NoDelivery)}
                ELSE {MainBody(d, t, a, s) : s \in DeliveryResults}
                : a \in AnalysisResults(t.text)}
            : t \in TranscribeResults(d.audio)}
        : d \in DownloadResults}

---------------------------------------------------------------------------
(* State *)

Call(id) == [call_uuid |-> id]
Windows == UNION {[1..n -> {Call(id) : id \in CallIds \cup {NoId}}] : n \in 0..MaxCalls}

\* The Processed-Set when the first run starts: empty in a fresh process; in
\* a process that has been up for long, the identifiers of earlier calls,
\* one mark below the cap.
FreshProcessed == {}
LongProcessed == Fillers(MaxProcessed - 1)

\* The stages of the pipeline that a log of requests went through.
Stage(request) ==
    IF request \in {"storage_url", "record_uuid", "call_uuid"} THEN "fetch"
    ELSE IF request \in {"ffprobe", "ffmpeg"} THEN "convert"
    ELSE request
Stages(log) == {Stage(log[k]) : k \in DOMAIN log}

\* What one pass of the loop body leaves behind.
LoopBodyOutcomes ==
    {[outcome |-> r.outcome, stages |-> Stages(r.log), mark |-> r.mark, raised |-> r.raised,
      tpath |-> r.tpath] :
        r \in LoopBodyResults}

NoCur == [call_uuid |-> NoId, outcome |-> "none", stages |-> {}, mark |-> FALSE,
          tpath |-> "none"]
NoCalls == [ok |-> FALSE, list |-> <<>>]                  \* Python None

\* The value found under a key of the JSON object: the key is missing, its
\* value is null, or its value is a list.
NoKey == [has |-> FALSE, list |-> FALSE, items |-> <<>>]
Null == [has |-> TRUE, list |-> FALSE, items |-> <<>>]
ListOf(w) == [has |-> TRUE, list |-> TRUE, items |-> w]

Response(status, json, body, c, r) ==
    [status |-> status, json |-> json, body |-> body, calls |-> c, results |-> r]

\* What the call-list request can come back with when the provider holds
\* the calls w: the three list shapes, objects with both keys, an object
\* with neither, JSON of another type, an HTTP error status, a transport
\* failure, a body that is not JSON.
Responses(w) ==
    {Response("ok", "list", w, NoKey, NoKey),
     Response("ok", "dict", <<>>, ListOf(w), NoKey),
     Response("ok", "dict", <<>>, NoKey, ListOf(w)),
     Response("ok", "dict", <<>>, ListOf(w), ListOf(<<>>)),
     Response("ok", "dict", <<>>, Null, ListOf(w)),
     Response("ok", "dict", <<>>, NoKey, NoKey),
     Response("ok", "other", <<>>, NoKey, NoKey),
     Response("http_error", "other", <<>>, NoKey, NoKey),
     Response("transport_error", "other", <<>>, NoKey, NoKey),
     Response("bad_json", "other", <<>>, NoKey, NoKey)}

\* len() of a value that is not a list raises TypeError, caught at
\* main.py:155-157.
ListOrNone(v) == IF v.list THEN [ok |-> TRUE, list |-> v.items] ELSE NoCalls

\* A fetch that knows the bare list and the `calls` key only.
get_recent_calls_RejectsResults(r) ==
    IF r.status # "ok" THEN NoCalls
    ELSE IF r.json = "dict" /\ r.calls.has THEN ListOrNone(r.calls)
    ELSE IF r.json = "list" THEN [ok |-> TRUE, list |-> r.body]
    ELSE NoCalls

\* get_recent_calls, main.py:130-157.
get_recent_calls(r) ==
    IF r.status # "ok" THEN NoCalls
    ELSE IF r.json = "dict" /\ r.calls.has THEN ListOrNone(r.calls)
    ELSE IF r.json = "list" THEN [ok |-> TRUE, list |-> r.body]
    ELSE IF r.json = "dict" /\ r.results.has THEN ListOrNone(r.results)
    ELSE NoCalls
NoResolver == [phase |-> "off"]
NoUnit == [phase |-> "off"]

\* No run of main() has started.
MainIdle ==
    /\ pc = "idle"
    /\ runs = 0
    /\ new_calls = <<>>
    /\ i = 0
    /\ cur = NoCur
    /\ markedIds = {}
    /\ legitIds = {}
    /\ failedIds = {}
    /\ deliveredIds = {}
    /\ prevDelivered = {}
    /\ token = "unset"
    /\ processed_calls = {}
    /\ calls = NoCalls
    /\ handled = <<>>

Start(S) ==
    /\ env = Join(SetToSeq(S))
    /\ window \in Windows
    /\ MainIdle
    /\ resolver = NoResolver
    /\ transcriber = NoUnit
    /\ tracker = NoUnit
    /\ formatter = NoUnit
    /\ numbers = NoUnit
    /\ web = NoUnit

Init == Start(FreshProcessed)
InitCap == Start(LongProcessed)

\* authenticate_telfin, main.py:53-96: the bearer token, or None.
AuthResults == {"token", "None"}

\* A run that goes on to load and fetch although it got no token.
Authenticate_ProceedsWithoutToken ==
    /\ pc \in {"idle", "done", "aborted"}
    /\ runs < MaxRuns
    /\ runs' = runs + 1
    /\ token' \in AuthResults
    /\ pc' = "load"
    /\ UNCHANGED <<env, window, new_calls, i, cur, markedIds,
                   legitIds, failedIds, deliveredIds, prevDelivered,
                   processed_calls, calls, handled, units>>

\* main.py:562-588: a run starts; without a token it ends at once.
Authenticate ==
    /\ pc \in {"idle", "done", "aborted"}
    /\ runs < MaxRuns
    /\ runs' = runs + 1
    /\ token' \in AuthResults
    /\ pc' = IF token' # "None" THEN "load" ELSE "done"
    /\ UNCHANGED <<env, window, new_calls, i, cur, markedIds,
                   legitIds, failedIds, deliveredIds, prevDelivered,
                   processed_calls, calls, handled, units>>

NewCalls(fetched, processed) ==
    SelectSeq(fetched, LAMBDA call : call.call_uuid \notin processed)

\* main.py:590-607: load the Processed-Set, fetch the call list, filter.
\* The histories of the previous run are dropped here.
LoadAndFetch ==
    /\ pc = "load"
    /\ processed_calls' = load_processed_calls(env)
    /\ \E r \in Responses(window) : calls' = get_recent_calls(r)
    /\ new_calls' = IF calls'.ok THEN NewCalls(calls'.list, processed_calls') ELSE <<>>
    /\ pc' = IF new_calls' = <<>> THEN "done" ELSE "loop"
    /\ i' = 0
    /\ cur' = NoCur
    /\ handled' = <<>>
    /\ markedIds' = {}
    /\ legitIds' = {}
    /\ failedIds' = {}
    /\ deliveredIds' = {}
    /\ prevDelivered' = deliveredIds
    /\ UNCHANGED <<env, runs, window, token, units>>

\* main.py:612-616: an entry without call_uuid is passed over.
SkipNoId ==
    /\ pc = "loop"
    /\ i < Len(new_calls)
    /\ new_calls[i + 1].call_uuid = NoId
    /\ i' = i + 1
    /\ cur' = [call_uuid |-> NoId, outcome |-> "no_id", stages |-> {}, mark |-> FALSE,
               tpath |-> "none"]
    /\ UNCHANGED <<env, pc, runs, window, new_calls, markedIds,
                   legitIds, failedIds, deliveredIds, prevDelivered,
                   token, processed_calls, calls, handled, units>>

\* main.py:612-723: one pass of the loop body, save_processed_call included.
ProcessCall ==
    /\ pc = "loop"
    /\ i < Len(new_calls)
    /\ new_calls[i + 1].call_uuid # NoId
    /\ LET call_uuid == new_calls[i + 1].call_uuid
           saved == save_processed_call(env, call_uuid)
       IN
       \E r \in LoopBodyOutcomes :
        /\ i' = i + 1
        /\ handled' = Append(handled, call_uuid)
        /\ cur' = [call_uuid |-> call_uuid, outcome |-> r.outcome,
                   stages |-> r.stages, mark |-> r.mark, tpath |-> r.tpath]
        /\ pc' = IF r.raised THEN "aborted" ELSE "loop"
        /\ IF r.mark
           THEN /\ env' \in saved
                /\ markedIds' = markedIds \cup {call_uuid}
           ELSE UNCHANGED <<env, markedIds>>
        /\ deliveredIds' =
               IF r.outcome = "reported" THEN deliveredIds \cup {call_uuid} ELSE deliveredIds
        /\ failedIds' =
               IF r.outcome = "delivery_failed" THEN failedIds \cup {call_uuid} ELSE failedIds
        /\ legitIds' =
               IF r.outcome \in {"reported", "size0", "cdr_notfound", "legacy404"}
               THEN legitIds \cup {call_uuid} ELSE legitIds
    /\ UNCHANGED <<runs, window, new_calls, prevDelivered,
                   token, processed_calls, calls, units>>

\* main.py:725-730: the loop is over, the summary is printed.
Finish ==
    /\ pc = "loop"
    /\ i = Len(new_calls)
    /\ pc' = "done"
    /\ UNCHANGED <<env, runs, window, new_calls, i, cur, markedIds,
                   legitIds, failedIds, deliveredIds, prevDelivered,
                   token, processed_calls, calls, handled, units>>

Next == Authenticate \/ LoadAndFetch \/ SkipNoId \/ ProcessCall \/ Finish

Spec == Init /\ [][Next]_vars
SpecCap == InitCap /\ [][Next]_vars

---------------------------------------------------------------------------
(* The recording resolver on its own: one call of download_recording for   *)
(* every combination of answers of the detail-record fetch and of the      *)
(* three recording endpoints.                                              *)

InitResolver ==
    /\ \E c \in CdrResponses, r1 \in FetchResponses,
          r2 \in FetchResponses, r3 \in FetchResponses :
        resolver = [phase |-> "called", c |-> c, r1 |-> r1, r2 |-> r2, r3 |-> r3,
                    result |-> [audio |-> NoBlob, log |-> <<>>, path |-> "none"]]
    /\ env = <<>>
    /\ window = <<>>
    /\ MainIdle
    /\ transcriber = NoUnit
    /\ tracker = NoUnit
    /\ formatter = NoUnit
    /\ numbers = NoUnit
    /\ web = NoUnit

Resolve ==
    /\ resolver.phase = "called"
    /\ resolver' = [resolver EXCEPT
                       !.phase = "returned",
                       !.result = DownloadRecording(resolver.c, resolver.r1,
                                                    resolver.r2, resolver.r3)]
    /\ UNCHANGED <<env, mainVars, transcriber, tracker, formatter, numbers, web>>

NextResolver == Resolve

SpecResolver == InitResolver /\ [][NextResolver]_vars

---------------------------------------------------------------------------
(* The transcription on its own: one call of transcribe_with_yandex for    *)
(* every audio blob and every combination of answers of the duration       *)
(* probe, the transcoder and the transcription provider.                   *)

InitTranscribe ==
    /\ \E k \in BOOLEAN, b \in Blobs \cup {NoBlob}, p \in ProbeResults,
          f \in FfmpegResults, s \in SttResponses :
        transcriber = [phase |-> "called", api_key |-> k, audio_data |-> b,
                       probe |-> p, ffmpeg |-> f, stt |-> s, result |-> NoTranscript]
    /\ env = <<>>
    /\ window = <<>>
    /\ MainIdle
    /\ resolver = NoResolver
    /\ tracker = NoUnit
    /\ formatter = NoUnit
    /\ numbers = NoUnit
    /\ web = NoUnit

Transcribe ==
    /\ transcriber.phase = "called"
    /\ transcriber' = [transcriber EXCEPT
                          !.phase = "returned",
                          !.result = transcribe_with_yandex(
                                         transcriber.api_key, transcriber.audio_data,
                                         transcriber.probe, transcriber.ffmpeg,
                                         transcriber.stt)]
    /\ UNCHANGED <<env, mainVars, resolver, tracker, formatter, numbers, web>>

NextTranscribe == Transcribe

SpecTranscribe == InitTranscribe /\ [][NextTranscribe]_vars

---------------------------------------------------------------------------
(* The tracker on its own: loads and saves over every kind of persisted    *)
(* string, an identifier with a comma among those saved.                   *)

TrackerIds == CallIds \cup {CommaId}

\* The persisted strings a load or a save may find: none, the empty one,
\* malformed ones, and sets one mark below the cap, at the cap and above it.
PersistedStates ==
    {Absent, <<>>,
     <<Sep>>, <<"A", Sep>>, <<Sep, "A">>, <<"A", Sep, Sep, "B">>, <<"A", Sep, "A">>,
     Join(SetToSeq(Fillers(MaxProcessed - 1))),
     Join(SetToSeq(Fillers(MaxProcessed))),
     Join(SetToSeq(Fillers(MaxProcessed + 1)))}

InitTracker ==
    /\ env \in PersistedStates
    /\ tracker = [phase |-> "idle", before |-> env, call_id |-> NoId,
                  result |-> {}, ops |-> 0]
    /\ window = <<>>
    /\ MainIdle
    /\ resolver = NoResolver
    /\ transcriber = NoUnit
    /\ formatter = NoUnit
    /\ numbers = NoUnit
    /\ web = NoUnit

TrackerLoad ==
    /\ tracker.ops < MaxTrackerOps
    /\ tracker' = [phase |-> "loaded", before |-> env, call_id |-> NoId,
                   result |-> load_processed_calls(env), ops |-> tracker.ops + 1]
    /\ UNCHANGED <<env, mainVars, resolver, transcriber, formatter, numbers, web>>

TrackerSave ==
    /\ tracker.ops < MaxTrackerOps
    /\ \E call_id \in TrackerIds :
        /\ env' \in save_processed_call(env, call_id)
        /\ tracker' = [phase |-> "saved", before |-> env, call_id |-> call_id,
                       result |-> {}, ops |-> tracker.ops + 1]
    /\ UNCHANGED <<mainVars, resolver, transcriber, formatter, numbers, web>>

NextTracker == TrackerLoad \/ TrackerSave

SpecTracker == InitTracker /\ [][NextTracker]_vars

---------------------------------------------------------------------------
(* The formatter's classification on its own, for every analysis text of   *)
(* up to MaxWords words.                                                   *)

InitFormatter ==
    /\ \E analysis \in AnalysisTexts :
        formatter = [phase |-> "called", analysis |-> analysis, tag |-> "none"]
    /\ env = <<>>
    /\ window = <<>>
    /\ MainIdle
    /\ resolver = NoResolver
    /\ transcriber = NoUnit
    /\ tracker = NoUnit
    /\ numbers = NoUnit
    /\ web = NoUnit

Classify ==
    /\ formatter.phase = "called"
    /\ formatter' = [formatter EXCEPT
                        !.phase = "returned",
                        !.tag = call_type_emoji(formatter.analysis)]
    /\ UNCHANGED <<env, mainVars, resolver, transcriber, tracker, numbers, web>>

NextFormatter == Classify

SpecFormatter == InitFormatter /\ [][NextFormatter]_vars

---------------------------------------------------------------------------
(* The counterpart numbers of the report, main.py:661-678, on their own.   *)
(* A value of the call record is a sequence of tokens: "@" or a piece of   *)
(* text without "@".  MissingKey is a key the record does not have,        *)
(* NullValue a JSON null, NA the text 'N/A', <<>> the empty text.          *)

MissingKey == <<"<missing>">>
NullValue == <<"<null>">>
NA == <<"N/A">>

RECURSIVE WithDomains(_, _)
WithDomains(user, n) == IF n = 0 THEN user ELSE WithDomains(user, n - 1) \o <<"@", "d">>

\* The values a number field may have for the user part `user`.
FieldValues(user) ==
    {MissingKey, NullValue, NA, <<>>, <<"@", "d">>} \cup
    {WithDomains(<<user>>, n) : n \in 0..MaxDomains}

Flows == {"out", "in", "<missing>"}

CallRecords ==
    [flow : Flows,
     from_username : FieldValues("1"),
     to_username : FieldValues("2"),
     bridged_username : FieldValues("3")]

\* call.get(key, 'N/A')
Get(v) == IF v = MissingKey THEN NA ELSE v

\* number.split('@')[0]
BeforeAt(v) ==
    LET ats == {k \in DOMAIN v : v[k] = "@"}
    IN  IF ats = {} THEN v
        ELSE SubSeq(v, 1, (CHOOSE k \in ats : \A j \in ats : k <= j) - 1)

\* main.py:661-664
clean_phone_number(number) ==
    IF number \notin {NullValue, <<>>, NA} THEN BeforeAt(number) ELSE number

\* A choice of numbers that takes the inbound rule for every direction.
ReportNumbers_IgnoresFlow(call) ==
    LET from_number == Get(call.from_username)
        to_number == Get(call.to_username)
        bridged_number == Get(call.bridged_username)
        caller_number == IF bridged_number # NA THEN bridged_number ELSE from_number
        called_number == to_number
    IN  [caller |-> clean_phone_number(caller_number),
         called |-> clean_phone_number(called_number)]

\* main.py:666-678
ReportNumbers(call) ==
    LET from_number == Get(call.from_username)
        to_number == Get(call.to_username)
        bridged_number == Get(call.bridged_username)
        caller_number == IF call.flow = "out" THEN from_number
                         ELSE IF bridged_number # NA THEN bridged_number ELSE from_number
        called_number == IF call.flow = "out"
                         THEN IF to_number # NA THEN to_number ELSE bridged_number
                         ELSE to_number
    IN  [caller |-> clean_phone_number(caller_number),
         called |-> clean_phone_number(called_number)]

InitNumbers ==
    /\ \E call \in CallRecords :
        numbers = [phase |-> "called", call |-> call, caller |-> <<>>, called |-> <<>>]
    /\ env = <<>>
    /\ window = <<>>
    /\ MainIdle
    /\ resolver = NoResolver
    /\ transcriber = NoUnit
    /\ tracker = NoUnit
    /\ formatter = NoUnit
    /\ web = NoUnit

ChooseNumbers ==
    /\ numbers.phase = "called"
    /\ numbers' = [numbers EXCEPT
                      !.phase = "returned",
                      !.caller = ReportNumbers(numbers.call).caller,
                      !.called = ReportNumbers(numbers.call).called]
    /\ UNCHANGED <<env, mainVars, resolver, transcriber, tracker, formatter, web>>

NextNumbers == ChooseNumbers

SpecNumbers == InitNumbers /\ [][NextNumbers]_vars

---------------------------------------------------------------------------
(* Runs started through the /process route, main.py:743-752.  The server   *)
(* of app.run handles each request in a thread of its own; the threads     *)
(* share os.environ.  A run is followed through its calls of               *)
(* save_processed_call only: the load of main.py:40 and the assignment of  *)
(* main.py:47 are separate steps of a thread.                              *)

Requests == 1..MaxRequests

\* The identifiers a run goes on to mark, in order: calls that were new
\* when it filtered the call list (main.py:601).
MarkLists(processed) ==
    UNION {[1..n -> CallIds \ processed] : n \in 1..MaxMarks}

NoRequest == [pc |-> "idle", todo |-> <<>>, seen |-> <<>>]

InitWeb ==
    /\ web = [reqs |-> [r \in Requests |-> NoRequest], stored |-> {}]
    /\ env = <<>>
    /\ window = <<>>
    /\ MainIdle
    /\ resolver = NoResolver
    /\ transcriber = NoUnit
    /\ tracker = NoUnit
    /\ formatter = NoUnit
    /\ numbers = NoUnit

\* process_calls calls main(), which filters the call list against the set
\* it loads (main.py:591-601).
ProcessRequest(r) ==
    /\ web.reqs[r].pc = "idle"
    /\ \E todo \in MarkLists(load_processed_calls(env)) :
        web' = [web EXCEPT !.reqs[r] = [pc |-> "marking", todo |-> todo, seen |-> <<>>]]
    /\ UNCHANGED <<env, mainVars, resolver, transcriber, tracker, formatter, numbers>>

\* save_processed_call, main.py:40: the thread reads the variable.
SaveLoad(r) ==
    /\ web.reqs[r].pc = "marking"
    /\ web' = [web EXCEPT !.reqs[r].pc = "loaded", !.reqs[r].seen = env]
    /\ UNCHANGED <<env, mainVars, resolver, transcriber, tracker, formatter, numbers>>

\* save_processed_call, main.py:41-47: the thread writes what it read, with
\* the identifier added.
SaveStore(r) ==
    /\ web.reqs[r].pc = "loaded"
    /\ env' \in save_processed_call(web.reqs[r].seen, Head(web.reqs[r].todo))
    /\ web' = [web EXCEPT
                  !.stored = @ \cup {Head(web.reqs[r].todo)},
                  !.reqs[r].todo = Tail(@),
                  !.reqs[r].seen = <<>>,
                  !.reqs[r].pc = IF Tail(web.reqs[r].todo) = <<>> THEN "returned"
                                 ELSE "marking"]
    /\ UNCHANGED <<mainVars, resolver, transcriber, tracker, formatter, numbers>>

NextWeb == \E r \in Requests : ProcessRequest(r) \/ SaveLoad(r) \/ SaveStore(r)

SpecWeb == InitWeb /\ [][NextWeb]_vars

---------------------------------------------------------------------------
(* Properties *)

ProcessedSet == load_processed_calls(env)
BelowCap == Cardinality(ProcessedSet) < MaxProcessed
NewIds == {new_calls[k].call_uuid : k \in DOMAIN new_calls}
RunOver == pc \in {"done", "aborted"}
LaterStages == {"convert", "stt", "gpt", "telegram"}

\* C1: while the cap has not been reached, a call that was new in the run is
\* a member of the Processed-Set if and only if its report was delivered or
\* it was determined to have no recording (detail record of size 0, call
\* absent from the detail records, 404 of the legacy endpoint).
C1_MemberIffReportedOrNoRecording ==
    BelowCap =>
        \A id \in NewIds \ {NoId} : (id \in ProcessedSet) <=> (id \in legitIds)

\* C2: a pass of the loop whose delivery fails does not call
\* save_processed_call; a call whose delivery failed, and which no other
\* entry of the same call list marked, is not a member of the Processed-Set
\* and is in the new-call set that the next run computes.
C2_FailedDeliveryStaysUnmarked ==
    /\ cur.outcome = "delivery_failed" => ~cur.mark /\ cur.call_uuid \in failedIds
    /\ \A id \in failedIds \ markedIds :
        /\ id \notin ProcessedSet
        /\ Call(id) \in Range(NewCalls(window, ProcessedSet))

C2_Witness ==
    /\ pc = "done"
    /\ cur.outcome = "delivery_failed"
    /\ cur.call_uuid \in failedIds \ markedIds

\* C3: for a new call whose detail record has size 0 the run calls
\* save_processed_call (below the cap the call is then a member) and makes
\* no recording fetch, no conversion, no transcription, analysis or delivery
\* request.
C3_SizeZeroMarkedWithoutWork ==
    cur.outcome = "size0" =>
        /\ cur.mark
        /\ cur.call_uuid \in markedIds
        /\ cur.stages = {"cdr"}
        /\ BelowCap => cur.call_uuid \in ProcessedSet

C3_Witness ==
    /\ cur.outcome = "size0"
    /\ cur.call_uuid \in ProcessedSet
    /\ deliveredIds = {}

\* C4: over an unchanged call list, no call whose report was delivered in
\* one run has a report delivered in the next run.
C4_SecondRunDeliversNothingAgain ==
    deliveredIds \cap prevDelivered = {}

\* C5: when the detail record has a non-zero size and every recording fetch
\* attempted fails (the legacy endpoint with something else than 404), the
\* call is not marked processed in the run.
C5_FetchFailureStaysUnmarked ==
    cur.outcome = "fetch_failed" =>
        ~cur.mark /\ cur.call_uuid \notin ProcessedSet

\* C6: when the detail-record fetch fails with a transport error or a
\* non-success status, the call is left unmarked.
C6_DetailFetchFailureStaysUnmarked ==
    cur.outcome = "cdr_error" =>
        ~cur.mark /\ cur.call_uuid \notin ProcessedSet

\* C7: once the recording bytes are there, a failure of transcription or of
\* analysis ends the pass with no delivery attempt and without
\* save_processed_call; a pass ends skipped-and-marked (marked, nothing
\* after the resolver), reported-and-marked (delivered, marked) or unmarked
\* (not delivered, not marked).
C7_PerCallStateMachine ==
    /\ cur.outcome \in {"transcription_failed", "analysis_failed"} =>
        /\ "fetch" \in cur.stages
        /\ "telegram" \notin cur.stages
        /\ ~cur.mark
    /\ cur.outcome # "none" =>
        \/ /\ cur.mark
           /\ cur.outcome # "reported"
           /\ cur.stages \cap LaterStages = {}
           /\ cur.call_uuid \in markedIds
        \/ /\ cur.mark
           /\ cur.outcome = "reported"
           /\ "telegram" \in cur.stages
           /\ cur.call_uuid \in markedIds \cap deliveredIds
        \/ /\ ~cur.mark
           /\ cur.outcome # "reported"
    /\ \A id \in deliveredIds : id \in markedIds

C7_Witness ==
    /\ cur.outcome = "analysis_failed"
    /\ "gpt" \in cur.stages
    /\ cur.call_uuid \notin ProcessedSet

\* C8: whenever the delivery of a call's report succeeds, the call is a
\* member of the Processed-Set right after the mark.
C8_DeliveredIsMember ==
    cur.outcome = "reported" => cur.call_uuid \in ProcessedSet

\* C9: no failure of a stage for one call ends the run: when the run is
\* over, every call of the new-call set has been handled.
C9_FailureIsolation ==
    RunOver => i = Len(new_calls)

\* C10: for a detail record of non-zero size the recording endpoints are
\* asked in the order storage_url, record_uuid, call_uuid; an absent source
\* is not asked, a present one is asked exactly when every earlier present
\* one failed, none is asked after one has answered 200, and none is asked
\* twice.
EndpointOrder == <<"cdr", "storage_url", "record_uuid", "call_uuid">>
IndexOf(name) == CHOOSE k \in DOMAIN EndpointOrder : EndpointOrder[k] = name
Asked(name) == name \in Range(resolver.result.log)

C10_FallbackOrder ==
    (/\ resolver.phase = "returned"
     /\ resolver.c.kind = "found"
     /\ resolver.c.record_file_size # 0) =>
        LET log == resolver.result.log
            failed1 == ~resolver.c.storage_url \/ resolver.r1.status # 200
            failed2 == ~resolver.c.record_uuid \/ resolver.r2.status # 200
        IN /\ Range(log) \subseteq Range(EndpointOrder)
           /\ Len(log) >= 1 /\ log[1] = "cdr"
           /\ \A j, k \in DOMAIN log : j < k => IndexOf(log[j]) < IndexOf(log[k])
           /\ Asked("storage_url") <=> resolver.c.storage_url
           /\ Asked("record_uuid") <=> (resolver.c.record_uuid /\ failed1)
           /\ Asked("call_uuid") <=> (failed1 /\ failed2)
           /\ resolver.result.audio =
                  IF ~failed1 THEN resolver.r1.content
                  ELSE IF ~failed2 THEN resolver.r2.content
                  ELSE IF resolver.r3.status = 200 THEN resolver.r3.content
                  ELSE NoBlob

C10_Witness ==
    /\ resolver.phase = "returned"
    /\ resolver.result.log = EndpointOrder
    /\ Truthy(resolver.result.audio)

\* C11: when the legacy endpoint, the last one asked, answers 404, the pass
\* calls save_processed_call (below the cap the call is then a member) and
\* makes no conversion, transcription, analysis or delivery request.
C11_Legacy404IsNoRecording ==
    cur.outcome = "legacy404" =>
        /\ cur.mark
        /\ cur.call_uuid \in markedIds
        /\ cur.stages = {"cdr", "fetch"}
        /\ cur.stages \cap LaterStages = {}
        /\ BelowCap => cur.call_uuid \in ProcessedSet

C11_Witness ==
    /\ cur.outcome = "legacy404"
    /\ cur.stages = {"cdr", "fetch"}
    /\ cur.call_uuid \in ProcessedSet \cap markedIds

\* C12: with a key and a non-empty blob, the blob is turned away as too
\* large exactly when its length is greater than 1048576; a blob of exactly
\* 1048576 bytes goes on (a blob that needs no conversion reaches the
\* transcription provider), and for one turned away no probe, no transcoder
\* and no transcription request is made.
TranscriberEntered ==
    /\ transcriber.phase = "returned"
    /\ transcriber.api_key
    /\ Truthy(transcriber.audio_data)

C12_SizeLimitBoundary ==
    TranscriberEntered =>
        LET audio_data == transcriber.audio_data
            result == transcriber.result
        IN /\ result.path = "too_large" <=> audio_data.len > MaxAudioBytes
           /\ audio_data.len > MaxAudioBytes =>
                  result.log = <<>> /\ result.text = NoText
           /\ (audio_data.len = MaxAudioBytes /\ ~audio_data.legacy) =>
                  /\ result.log = <<"stt">>
                  /\ result.text = Recognize(transcriber.stt)
           /\ (audio_data.len = MaxAudioBytes /\ audio_data.legacy) =>
                  result.log # <<>> /\ result.log[1] = "ffprobe"

C12_Witness ==
    /\ TranscriberEntered
    /\ transcriber.audio_data.len = MaxAudioBytes
    /\ transcriber.result.log = <<"stt">>
    /\ TruthyText(transcriber.result.text)

\* C13: for a blob in a legacy container that passed the size test, the
\* duration probe comes first and the transcoder after it; the transcoder is
\* started when the probed duration is at most 30.0 seconds, and when it is
\* above it is not started, no transcription request is made and the
\* placeholder text is returned.
ConversionEntered ==
    /\ TranscriberEntered
    /\ transcriber.audio_data.len <= MaxAudioBytes
    /\ transcriber.audio_data.legacy

C13_DurationLimitBoundary ==
    ConversionEntered =>
        LET log == transcriber.result.log
            probe == transcriber.probe
        IN /\ log # <<>> /\ log[1] = "ffprobe"
           /\ \A k \in DOMAIN log : log[k] = "ffmpeg" => k > 1
           /\ (probe.kind = "ok" /\ probe.tenths <= MaxDuration * 10) =>
                  "ffmpeg" \in Range(log)
           /\ (probe.kind = "ok" /\ probe.tenths > MaxDuration * 10) =>
                  /\ log = <<"ffprobe">>
                  /\ transcriber.result.text = Placeholder

C13_Witness ==
    /\ ConversionEntered
    /\ transcriber.probe.kind = "ok"
    /\ transcriber.probe.tenths = MaxDuration * 10
    /\ transcriber.result.log = <<"ffprobe", "ffmpeg", "stt">>

\* C14: when transcribe_with_yandex returns, no temporary file of the
\* conversion is left, whichever way the conversion went.
C14_TemporaryFilesRemoved ==
    transcriber.phase = "returned" => transcriber.result.tmp = {}

\* C15: after every save_processed_call, whatever the persisted string held
\* before, the Processed-Set holds at most 100 identifiers.
C15_AtMostCapAfterMark ==
    tracker.phase = "saved" => Cardinality(ProcessedSet) <= MaxProcessed

\* C16: a mark that raises the cardinality above 100 removes the oldest
\* identifiers only: every identifier marked in the run, the one just marked
\* included, is still a member.
C16_EvictionOldestFirst ==
    \A id \in markedIds : id \in ProcessedSet

\* C17: load_processed_calls returns a set and leaves the persisted string
\* as it was: the empty set when the string is absent or empty, and for any
\* other string, malformed ones included, the pieces of text between its
\* separators.
C17_LoadNeverRaises ==
    tracker.phase = "loaded" =>
        /\ env = tracker.before
        /\ IsFiniteSet(tracker.result)
        /\ tracker.before \in {Absent, <<>>} => tracker.result = {}
        /\ tracker.before \notin {Absent, <<>>} =>
              /\ \A tok \in Range(tracker.before) \ {Sep} : tok \in tracker.result
              /\ \A x \in tracker.result : x = "" \/ x \in Range(tracker.before) \ {Sep}

C17_Witness ==
    /\ tracker.phase = "loaded"
    /\ tracker.before = <<>>
    /\ tracker.result = {}
    /\ tracker.ops = 2

\* C18: every analysis text gets exactly one tag, the first in the order
\* successful sale, failed sale, logistics, support, no answer or error,
\* other, generic whose condition the text meets.
TagPriority ==
    <<"successful_sale", "failed_sale", "logistics", "support",
      "no_answer_error", "other", "generic">>

Applies(tag, analysis) ==
    LET has(marker) == marker \in Range(analysis)
    IN CASE tag = "successful_sale" -> has("PRODAZHA") /\ has("ZAKAZ OFORMLEN")
         [] tag = "failed_sale" -> has("PRODAZHA") /\ ~has("ZAKAZ OFORMLEN")
         [] tag = "logistics" -> has("LOGISTIKA")
         [] tag = "support" -> has("PODDERZHKA")
         [] tag = "no_answer_error" -> has("NEDOZVON") \/ has("OSHIBKA")
         [] tag = "other" -> has("DRUGOE")
         [] tag = "generic" -> TRUE

C18_ClassificationPriority ==
    formatter.phase = "returned" =>
        \E k \in DOMAIN TagPriority :
            /\ formatter.tag = TagPriority[k]
            /\ Applies(TagPriority[k], formatter.analysis)
            /\ \A j \in 1..(k - 1) : ~Applies(TagPriority[j], formatter.analysis)

C18_Witness ==
    /\ formatter.phase = "returned"
    /\ formatter.tag = "failed_sale"
    /\ "LOGISTIKA" \in Range(formatter.analysis)
    /\ "DRUGOE" \in Range(formatter.analysis)

\* C19: in a run that fetched the call list, the new calls are the fetched
\* calls whose identifier is not in the Processed-Set loaded at the start of
\* the run, in the order of the call list, and the loop takes them one by
\* one in that order (NewCallsInProviderOrder); when the run is over it has
\* taken all of them.
NewCallsInProviderOrder ==
    calls.ok =>
        /\ new_calls =
               SelectSeq(calls.list, LAMBDA call : call.call_uuid \notin processed_calls)
        /\ i \in 0..Len(new_calls)
        /\ handled =
               SelectSeq([k \in 1..i |-> new_calls[k].call_uuid], LAMBDA id : id # NoId)

C19_NewCallSelectionAndOrder ==
    /\ NewCallsInProviderOrder
    /\ (calls.ok /\ RunOver) => i = Len(new_calls)

\* C20: a step in which authentication gives no token ends the run and
\* changes neither the Processed-Set nor anything a fetch, a transcription,
\* an analysis or a delivery would change; after it nothing happens but the
\* start of another run.
C20_AuthFailureIsFatal ==
    [][/\ (runs' # runs /\ token' = "None") =>
            /\ pc' = "done"
            /\ UNCHANGED <<env, processed_calls, calls, new_calls, i, cur, handled,
                           markedIds, legitIds, failedIds, deliveredIds>>
       /\ token = "None" => runs' = runs + 1]_vars

C20_Witness ==
    /\ token = "None"
    /\ pc = "done"
    /\ runs = 2
    /\ "A" \in ProcessedSet \cap markedIds

\* C22: a run that fetched its call list ends with every call of its
\* new-call set at a terminal outcome (skipped, marked, or left for the next
\* run; not cut short by an exception), and a run without new calls ends
\* with no delivery and no mark.
TerminalOutcomes ==
    {"no_id", "cdr_error", "cdr_notfound", "size0", "legacy404", "fetch_failed",
     "empty_body", "transcription_failed", "analysis_failed", "reported",
     "delivery_failed"}

C22_RunCompletes ==
    (RunOver /\ token = "token" /\ calls.ok) =>
        /\ pc = "done"
        /\ Len(new_calls) = i
        /\ new_calls # <<>> => cur.outcome \in TerminalOutcomes
        /\ new_calls = <<>> => deliveredIds = {} /\ markedIds = {} /\ cur = NoCur

\* C27: within one run no report is delivered for a call_uuid that already
\* had a report delivered in the same run.
C27_OneReportPerCallInRun ==
    [][(i' = i + 1 /\ cur'.outcome = "reported") => cur'.call_uuid \notin deliveredIds]_vars

\* C28: when the Processed-Set has fewer than 100 members, the set loaded
\* after save_processed_call(call_id) is the set loaded before with call_id
\* added: nothing dropped, nothing else added, and unchanged when call_id
\* was a member already.
C28_MarkBelowCapRoundTrips ==
    (/\ tracker.phase = "saved"
     /\ Cardinality(load_processed_calls(tracker.before)) < MaxProcessed) =>
        ProcessedSet = load_processed_calls(tracker.before) \cup {tracker.call_id}

\* C23: a call whose probed duration is above 30 seconds is not given up at
\* the transcription: its pass goes on to the analysis with no transcription
\* request made, and when the report is delivered the call is marked (below
\* the cap it is then a member), as for a recognized transcript.
C23_PlaceholderGoesOn ==
    cur.tpath = "too_long" =>
        /\ cur.outcome \in {"reported", "delivery_failed", "analysis_failed", "raised"}
        /\ {"cdr", "fetch", "convert"} \subseteq cur.stages
        /\ "stt" \notin cur.stages
        /\ cur.outcome = "reported" =>
              /\ cur.mark
              /\ {"gpt", "telegram"} \subseteq cur.stages
              /\ cur.call_uuid \in markedIds \cap deliveredIds
              /\ BelowCap => cur.call_uuid \in ProcessedSet
        /\ cur.outcome # "reported" => ~cur.mark

C23_Witness ==
    /\ cur.tpath = "too_long"
    /\ cur.outcome = "reported"
    /\ cur.call_uuid \in ProcessedSet \cap deliveredIds

\* C24: when the transcoder fails for a blob in a legacy container, the pass
\* ends as a failed transcription with no request to the transcription
\* provider, no analysis and no delivery, and without save_processed_call:
\* unless another entry of the call list marked it, the call is not a member.
C24_FailedTranscodingStaysUnmarked ==
    cur.tpath = "convert_failed" =>
        /\ cur.outcome = "transcription_failed"
        /\ cur.stages = {"cdr", "fetch", "convert"}
        /\ ~cur.mark
        /\ cur.call_uuid \notin markedIds => cur.call_uuid \notin ProcessedSet

C24_Witness ==
    /\ cur.tpath = "convert_failed"
    /\ cur.stages = {"cdr", "fetch", "convert"}
    /\ cur.call_uuid \notin ProcessedSet \cup markedIds

\* C29: when the transcription provider answers with an empty text, the
\* pass ends as a failed transcription with no analysis and no delivery and
\* without save_processed_call; unless another entry of the call list marked
\* it, the call is not a member and is in the new-call set of the next run.
C29_EmptyTextIsRetried ==
    cur.tpath = "empty_text" =>
        /\ cur.outcome = "transcription_failed"
        /\ "stt" \in cur.stages
        /\ cur.stages \cap {"gpt", "telegram"} = {}
        /\ ~cur.mark
        /\ cur.call_uuid \notin markedIds =>
              /\ cur.call_uuid \notin ProcessedSet
              /\ Call(cur.call_uuid) \in Range(NewCalls(window, ProcessedSet))

C29_Witness ==
    /\ cur.tpath = "empty_text"
    /\ runs = 2
    /\ "stt" \in cur.stages
    /\ cur.call_uuid \notin ProcessedSet \cup markedIds

\* C26: a bare list, an object with a `calls` list and an object with a
\* `results` list (and no `calls` key) each yield the contained list in the
\* provider's order; an object with neither key, JSON of another type, an
\* error status, a transport failure and a body that is not JSON yield a
\* failed fetch; after a failed fetch the run is over with no call handled,
\* nothing marked and the Processed-Set as it was loaded.
C26_FetchAcceptsThreeShapes ==
    /\ \A r \in Responses(window) :
          /\ (r.status = "ok" /\ r.json = "list") =>
                get_recent_calls(r) = [ok |-> TRUE, list |-> r.body]
          /\ (r.status = "ok" /\ r.json = "dict" /\ r.calls.list) =>
                get_recent_calls(r) = [ok |-> TRUE, list |-> r.calls.items]
          /\ (r.status = "ok" /\ r.json = "dict" /\ ~r.calls.has /\ r.results.list) =>
                get_recent_calls(r) = [ok |-> TRUE, list |-> r.results.items]
          /\ (\/ r.status # "ok"
              \/ r.json = "other"
              \/ r.json = "dict" /\ ~r.calls.has /\ ~r.results.has) =>
                get_recent_calls(r) = NoCalls
    /\ (pc \notin {"idle", "load"} /\ token = "token" /\ ~calls.ok) =>
          /\ pc = "done"
          /\ new_calls = <<>>
          /\ handled = <<>>
          /\ i = 0
          /\ markedIds = {}
          /\ deliveredIds = {}
          /\ ProcessedSet = processed_calls

C26_Witness ==
    /\ pc = "done"
    /\ runs = 2
    /\ token = "token"
    /\ ~calls.ok
    /\ ProcessedSet # {}
    /\ Len(window) = 2
    /\ get_recent_calls(Response("ok", "dict", <<>>, NoKey, ListOf(window))).list = window

\* A value of the call record that counts as absent: the key is missing or
\* the text is 'N/A'.
AbsentNumber(v) == Get(v) = NA

\* The number shown for a value: a text is cut before its first "@".
Shown(v) == IF Get(v) = NullValue THEN NullValue ELSE BeforeAt(Get(v))

\* C25: for an outbound call "from" is the originator and "to" is the
\* callee, or the bridged number when the callee is absent; for any other
\* direction "from" is the bridged number, or the originator when the
\* bridged number is absent, and "to" is the callee; a number shown is the
\* part of the value before its first "@".
C25_NumbersByDirection ==
    numbers.phase = "returned" =>
        LET call == numbers.call
        IN  IF call.flow = "out"
            THEN /\ numbers.caller = Shown(call.from_username)
                 /\ numbers.called = IF AbsentNumber(call.to_username)
                                     THEN Shown(call.bridged_username)
                                     ELSE Shown(call.to_username)
            ELSE /\ numbers.caller = IF AbsentNumber(call.bridged_username)
                                     THEN Shown(call.from_username)
                                     ELSE Shown(call.bridged_username)
                 /\ numbers.called = Shown(call.to_username)

C25_Witness ==
    /\ numbers.phase = "returned"
    /\ numbers.call.flow = "out"
    /\ numbers.call.to_username = MissingKey
    /\ numbers.call.bridged_username = <<"3", "@", "d", "@", "d">>
    /\ numbers.call.from_username = <<"1", "@", "d">>
    /\ numbers.caller = <<"1">>
    /\ numbers.called = <<"3">>

\* C21: at most one run is between the load and the store of a mark, and
\* every mark stored is a member of the Processed-Set from then on (the
\* cap is not reached).
C21_NoConcurrentWriters ==
    /\ Cardinality({r \in Requests : web.reqs[r].pc = "loaded"}) <= 1
    /\ web.stored \subseteq ProcessedSet

====
